---- MODULE Spec2Model ----
(***************************************************************************)
(* GopherDB: a single-file key/value store, a B-tree over fixed-size pages *)
(* with named collections and read/write transactions.                     *)
(*                                                                         *)
(* src/node.go         Node: search, insert with split, delete with        *)
(*                     rotate/merge, the slotted-page (de)serialization;   *)
(*                     DB: Open, Close, ReadTx, WriteTx                    *)
(* src/transaction.go  tx: collections, dirty nodes, Commit, Rollback      *)
(*                                                                         *)
(* The page store (dal, free-list, meta page) and Collection.Put / Find /  *)
(* Remove are not among the source files; they are modelled from spec.md   *)
(* (sections 3, 4.1, 4.3, 4.5) and are marked so where they are defined.   *)
(*                                                                         *)
(* Byte strings are sequences of numbers 0..255, page numbers are naturals.*)
(* Indexes are the code's (from 0); a sequence s of the model holds the    *)
(* code's s[i] at s[i+1].                                                  *)
(***************************************************************************)
EXTENDS Integers, Sequences, FiniteSets, TLC

(***************************************************************************)
(* Sizes.                                                                  *)
(***************************************************************************)
\* os.Getpagesize(), scaled down so that a node holds three items
PageSize == 84
\* Options.MinFillPercent and Options.MaxFillPercent, in percent
MinFillPercent == 50
MaxFillPercent == 100
nodeHeaderSize == 3
pageNumSize == 8

(***************************************************************************)
(* F applied to the value of v: the value is computed once, however often  *)
(* F uses it.  The operators below build their results in steps, as the    *)
(* code does statement by statement; each step's result is named this way. *)
(***************************************************************************)
With(v, F(_)) == CHOOSE r \in {F(x) : x \in {v}} : TRUE

With2(v, w, F(_, _)) == CHOOSE r \in {F(x, y) : x \in {v}, y \in {w}} : TRUE

(***************************************************************************)
(* Byte strings.                                                           *)
(***************************************************************************)
Min(a, b) == IF a < b THEN a ELSE b

\* bytes.Compare: -1, 0 or 1, lexicographically
RECURSIVE Compare(_, _)
Compare(a, b) ==
  IF a = <<>> /\ b = <<>> THEN 0
  ELSE IF a = <<>> THEN -1
  ELSE IF b = <<>> THEN 1
  ELSE IF Head(a) < Head(b) THEN -1
  ELSE IF Head(a) > Head(b) THEN 1
  ELSE Compare(Tail(a), Tail(b))

\* the w little-endian bytes of x (binary.LittleEndian.PutUint16 / PutUint64)
RECURSIVE LEBytes(_, _)
LEBytes(x, w) ==
  IF w = 0 THEN <<>> ELSE <<x % 256>> \o LEBytes(x \div 256, w - 1)

\* binary.LittleEndian.Uint16 / Uint64 of a byte sequence.  A value of more
\* than three significant bytes names no page of any file the model
\* reaches; all such values are read as 2^24.
RECURSIVE AllZero(_)
AllZero(bs) == bs = <<>> \/ (Head(bs) = 0 /\ AllZero(Tail(bs)))

RECURSIVE LESmall(_)
LESmall(bs) == IF bs = <<>> THEN 0 ELSE Head(bs) + 256 * LESmall(Tail(bs))

LEValue(bs) ==
  IF Len(bs) <= 3 THEN LESmall(bs)
  ELSE IF AllZero(SubSeq(bs, 4, Len(bs))) THEN LESmall(SubSeq(bs, 1, 3))
  ELSE 16777216

\* s[from:] and s[:to] of the code, on a model sequence
SliceFrom(s, from) == SubSeq(s, from + 1, Len(s))
SliceTo(s, to) == SubSeq(s, 1, to)

(***************************************************************************)
(* Items and nodes.                                                        *)
(***************************************************************************)
newItem(key, value) == [key |-> key, value |-> value]

NewEmptyNode == [pageNum |-> 0, items |-> <<>>, childNodes |-> <<>>]

NewNodeForSerialization(items, childNodes) ==
  [pageNum |-> 0, items |-> items, childNodes |-> childNodes]

isLast(index, parentNode) == index = Len(parentNode.items)

isFirst(index) == index = 0

isLeaf(n) == Len(n.childNodes) = 0

\* the size of the key-value-child triplet at index i
elementSize(n, i) ==
  Len(n.items[i + 1].key) + Len(n.items[i + 1].value) + pageNumSize

RECURSIVE SumElementSizes(_, _)
SumElementSizes(n, upto) ==
  IF upto = 0 THEN 0 ELSE SumElementSizes(n, upto - 1) + elementSize(n, upto - 1)

nodeSize(n) == nodeHeaderSize + SumElementSizes(n, Len(n.items)) + pageNumSize

(***************************************************************************)
(* The slotted page: Node.serialize and Node.deserialize.  A page buffer   *)
(* is a sequence of PageSize bytes, the code's buf[i] at i + 1.  An index   *)
(* or a slice bound outside the buffer is a run-time panic of the code:    *)
(* ok = FALSE.                                                             *)
(***************************************************************************)
ZeroPage == [i \in 1..PageSize |-> 0]

Uint16(x) == ((x % 65536) + 65536) % 65536

\* copy(buf[pos:], bytes)
CopyAt(buf, pos, bytes) ==
  SubSeq(buf, 1, pos) \o bytes \o SubSeq(buf, pos + Len(bytes) + 1, PageSize)

\* buf[from:to] as a byte sequence
BufSlice(buf, from, to) == SubSeq(buf, from + 1, to)

\* buf[i]
ByteAt(buf, i) == buf[i + 1]

\* binary.LittleEndian.PutUintNN(buf[leftPos:], x); leftPos += w
PutLeft(st, x, w) ==
  With(st, LAMBDA s :
    IF ~s.ok THEN s
    ELSE IF s.leftPos > PageSize \/ PageSize - s.leftPos < w
    THEN [s EXCEPT !.ok = FALSE]
    ELSE [s EXCEPT !.buf = CopyAt(s.buf, s.leftPos, LEBytes(x, w)),
                   !.leftPos = s.leftPos + w])

\* rightPos -= len(bytes); copy(buf[rightPos:], bytes)
PutRight(st, bytes) ==
  With(st, LAMBDA s :
    IF ~s.ok THEN s
    ELSE IF s.rightPos - Len(bytes) < 0
    THEN [s EXCEPT !.ok = FALSE]
    ELSE [s EXCEPT !.buf = CopyAt(s.buf, s.rightPos - Len(bytes), bytes),
                   !.rightPos = s.rightPos - Len(bytes)])

\* rightPos -= 1; buf[rightPos] = byte(x)
PutRightByte(st, x) == PutRight(st, <<x % 256>>)

\* one turn of serialize's loop, for item i
SerializeItem(n, i, st) ==
  LET item == n.items[i + 1]
      klen == Len(item.key)
      vlen == Len(item.value)
  IN  With(IF isLeaf(n) THEN st
           ELSE IF i >= Len(n.childNodes) THEN [st EXCEPT !.ok = FALSE]
           ELSE PutLeft(st, n.childNodes[i + 1], pageNumSize),
        LAMBDA s1 :
          PutRightByte(
            PutRight(
              PutRightByte(
                PutRight(
                  PutLeft(s1, Uint16(s1.rightPos - klen - vlen - 2), 2),
                  item.value),
                vlen),
              item.key),
            klen))

RECURSIVE SerializeItems(_, _, _)
SerializeItems(n, i, st) ==
  With(st, LAMBDA s :
    IF i >= Len(n.items) \/ ~s.ok THEN s
    ELSE SerializeItems(n, i + 1, SerializeItem(n, i, s)))

\* Node.serialize into a zeroed page: [ok, buf]
serialize(node) ==
  With(node, LAMBDA n :
    With(SerializeItems(n, 0,
           PutLeft([buf |-> CopyAt(ZeroPage, 0, <<IF isLeaf(n) THEN 1 ELSE 0>>),
                    leftPos |-> 1, rightPos |-> PageSize - 1, ok |-> TRUE],
                   Uint16(Len(n.items)), 2)),
      LAMBDA body :
        With(IF isLeaf(n) THEN body
             ELSE PutLeft(body, n.childNodes[Len(n.childNodes)], pageNumSize),
          LAMBDA done : [ok |-> done.ok, buf |-> done.buf])))

\* the key and the value at offset, once the buffer holds them there
ItemAt(buf, offset, st, pageNum, leaf, lp1) ==
  LET klen == ByteAt(buf, offset)
      o1 == Uint16(offset + 1)
      o2 == Uint16(o1 + klen)
  IN  IF ~(o1 <= o2 /\ o2 <= PageSize) \/ ~(o2 < PageSize)
      THEN [st EXCEPT !.ok = FALSE]
      ELSE LET vlen == ByteAt(buf, o2)
               o3 == Uint16(o2 + 1)
               o4 == Uint16(o3 + vlen)
           IN  IF ~(o3 <= o4 /\ o4 <= PageSize)
               THEN [st EXCEPT !.ok = FALSE]
               ELSE [st EXCEPT
                       !.leftPos = lp1 + 2,
                       !.childNodes = IF leaf THEN @ ELSE Append(@, pageNum),
                       !.items = Append(@, newItem(BufSlice(buf, o1, o2),
                                                   BufSlice(buf, o3, o4)))]

\* one turn of deserialize's loop
DeserializeItem(buf, leaf, st) ==
  With(st, LAMBDA s :
    LET childOk == s.leftPos <= PageSize /\ PageSize - s.leftPos >= pageNumSize
        lp1 == IF leaf THEN s.leftPos ELSE s.leftPos + pageNumSize
        offOk == lp1 <= PageSize /\ PageSize - lp1 >= 2
    IN  IF (~leaf /\ ~childOk) \/ ~offOk THEN [s EXCEPT !.ok = FALSE]
        ELSE With2(IF leaf THEN 0
                   ELSE LEValue(BufSlice(buf, s.leftPos, s.leftPos + pageNumSize)),
                   LEValue(BufSlice(buf, lp1, lp1 + 2)),
               LAMBDA pageNum, offset :
                 IF ~(offset < PageSize) THEN [s EXCEPT !.ok = FALSE]
                 ELSE ItemAt(buf, offset, s, pageNum, leaf, lp1)))

RECURSIVE DeserializeItems(_, _, _, _)
DeserializeItems(buf, leaf, count, st) ==
  With(st, LAMBDA s :
    IF count = 0 \/ ~s.ok THEN s
    ELSE DeserializeItems(buf, leaf, count - 1, DeserializeItem(buf, leaf, s)))

\* Node.deserialize of a page buffer: [ok, items, childNodes]
deserialize(page) ==
  With(page, LAMBDA buf :
    With(DeserializeItems(buf, ByteAt(buf, 0) # 0, LEValue(BufSlice(buf, 1, 3)),
           [leftPos |-> 3, items |-> <<>>, childNodes |-> <<>>, ok |-> TRUE]),
      LAMBDA body :
        LET leaf == ByteAt(buf, 0) # 0
            lastOk == body.leftPos <= PageSize /\ PageSize - body.leftPos >= pageNumSize
        IN  IF ~body.ok THEN [ok |-> FALSE, items |-> <<>>, childNodes |-> <<>>]
            ELSE IF leaf THEN [ok |-> TRUE, items |-> body.items, childNodes |-> <<>>]
            ELSE IF ~lastOk THEN [ok |-> FALSE, items |-> <<>>, childNodes |-> <<>>]
            ELSE [ok |-> TRUE, items |-> body.items,
                  childNodes |-> Append(body.childNodes,
                    LEValue(BufSlice(buf, body.leftPos, body.leftPos + pageNumSize)))]))

(***************************************************************************)
(* The page store (dal) and its free-list: spec.md sections 3 and 4.1.     *)
(*                                                                         *)
(* An environment e carries what the node and collection code reads and    *)
(* writes while one call runs:                                             *)
(*   pages      the file: page number -> what deserialize reads back from  *)
(*              the page last written there                                *)
(*   fl         the free-list: [maxPage, releasedPages]                    *)
(*   dirty      tx.dirtyNodes                                              *)
(*   allocated  tx.allocatedPageNums                                       *)
(*   toDelete   tx.pagesToDelete                                           *)
(*   st         "ok"; "err" once a call returned an error; "panic" once    *)
(*              the code hit a run-time panic; "full" when the file would  *)
(*              grow beyond MaxPages                                       *)
(* A node value in memory is [pageNum, items, childNodes, shared]; shared  *)
(* says that the object is the one tx.dirtyNodes points to.                *)
(***************************************************************************)
\* the file holds the pages 0..MaxPages
MaxPages == 11

Node(pageNum, items, childNodes) ==
  [pageNum |-> pageNum, items |-> items, childNodes |-> childNodes,
   shared |-> FALSE]

Fail(e, how) == IF e.st = "ok" THEN [e EXCEPT !.st = how] ELSE e

\* freelist.getNextPage: reuse the page released last, else grow the file
getNextPage(e) ==
  LET rel == e.fl.releasedPages
  IN  IF Len(rel) # 0
      THEN [e |-> [e EXCEPT !.fl.releasedPages = SubSeq(rel, 1, Len(rel) - 1)],
            page |-> rel[Len(rel)]]
      ELSE IF e.fl.maxPage >= MaxPages
      THEN [e |-> Fail(e, "full"), page |-> e.fl.maxPage + 1]
      ELSE [e |-> [e EXCEPT !.fl.maxPage = @ + 1], page |-> e.fl.maxPage + 1]

\* freelist.releasePage
releasePage(fl, page) == [fl EXCEPT !.releasedPages = Append(@, page)]

RECURSIVE releasePages(_, _)
releasePages(fl, pageNums) ==
  IF pageNums = <<>> THEN fl
  ELSE releasePages(releasePage(fl, Head(pageNums)), Tail(pageNums))

\* what a later read of the page finds: deserialize of the written buffer
PageImage(buf) == deserialize(buf)

\* dal.writeNode: give the node a page if it has none, serialize, write
dalWriteNode(e, node) ==
  IF e.st # "ok" THEN [e |-> e, node |-> node]
  ELSE With(IF node.pageNum = 0 THEN getNextPage(e)
            ELSE [e |-> e, page |-> node.pageNum],
         LAMBDA got :
           IF got.e.st # "ok"
           THEN [e |-> got.e, node |-> [node EXCEPT !.pageNum = got.page]]
           ELSE With(serialize([node EXCEPT !.pageNum = got.page]),
                  LAMBDA ser :
                    IF ~ser.ok
                    THEN [e |-> Fail(got.e, "panic"),
                          node |-> [node EXCEPT !.pageNum = got.page]]
                    ELSE [e |-> [got.e EXCEPT
                                   !.pages = (got.page :> PageImage(ser.buf)) @@ @],
                          node |-> [node EXCEPT !.pageNum = got.page]]))

\* dal.getNode: read the page and deserialize it
dalGetNode(e, pageNum) ==
  IF e.st # "ok" THEN [e |-> e, node |-> Node(pageNum, <<>>, <<>>)]
  ELSE IF pageNum \notin DOMAIN e.pages
  THEN [e |-> Fail(e, "err"), node |-> Node(pageNum, <<>>, <<>>)]
  ELSE IF ~e.pages[pageNum].ok
  THEN [e |-> Fail(e, "panic"), node |-> Node(pageNum, <<>>, <<>>)]
  ELSE [e |-> e,
        node |-> Node(pageNum, e.pages[pageNum].items, e.pages[pageNum].childNodes)]

\* dal.newNode: a node on a fresh page; the transaction does not record it
dalNewNode(e, items, childNodes) ==
  IF e.st # "ok" THEN [e |-> e, node |-> Node(0, items, childNodes)]
  ELSE With(getNextPage(e),
         LAMBDA got : [e |-> got.e, node |-> Node(got.page, items, childNodes)])

\* dal.deleteNode: release the page at once
dalDeleteNode(e, pageNum) ==
  IF e.st # "ok" THEN e ELSE [e EXCEPT !.fl = releasePage(@, pageNum)]

\* dal.isOverPopulated, dal.isUnderPopulated
isOverPopulated(n) == 100 * nodeSize(n) > MaxFillPercent * PageSize

isUnderPopulated(n) == 100 * nodeSize(n) < MinFillPercent * PageSize

\* dal.getSplitIndex: the first index i < len(items)-1 at which the size
\* accumulated from the header through item i exceeds the minimum; else -1
RECURSIVE SplitIndexFrom(_, _, _)
SplitIndexFrom(n, i, size) ==
  IF i >= Len(n.items) THEN -1
  ELSE IF 100 * (size + elementSize(n, i)) > MinFillPercent * PageSize
          /\ i < Len(n.items) - 1
  THEN i
  ELSE SplitIndexFrom(n, i + 1, size + elementSize(n, i))

getSplitIndex(n) == SplitIndexFrom(n, 0, nodeHeaderSize)

(***************************************************************************)
(* Node methods (src/node.go).  Each takes the environment and the node    *)
(* objects it mutates and returns them.                                    *)
(***************************************************************************)
\* Node.writeNode: n.dal.writeNode(node), the error dropped.  A node object
\* that tx.dirtyNodes points to is the same object there.
writeNode(e, node) ==
  With(dalWriteNode(e, node), LAMBDA w :
    IF w.e.st = "ok" /\ node.shared
    THEN [e |-> [w.e EXCEPT !.dirty = (w.node.pageNum :> w.node) @@ @],
          node |-> w.node]
    ELSE w)

\* Node.getNode: n.dal.getNode(pageNum)
getNode(e, pageNum) == dalGetNode(e, pageNum)

canSpareAnElement(n) == getSplitIndex(n) # -1

RECURSIVE FindKeyInNodeFrom(_, _, _)
FindKeyInNodeFrom(n, key, i) ==
  IF i >= Len(n.items) THEN [found |-> FALSE, index |-> Len(n.items)]
  ELSE With(Compare(n.items[i + 1].key, key), LAMBDA res :
         IF res = 0 THEN [found |-> TRUE, index |-> i]
         ELSE IF res = 1 THEN [found |-> FALSE, index |-> i]
         ELSE FindKeyInNodeFrom(n, key, i + 1))

findKeyInNode(n, key) == FindKeyInNodeFrom(n, key, 0)

\* findKeyHelper.  A descent longer than the file has pages is in a cycle of
\* child pointers and never returns: the code overflows its stack.
RECURSIVE findKeyHelper(_, _, _, _, _)
findKeyHelper(e, node, key, exact, ancestorsIndexes) ==
  With2(findKeyInNode(node, key), ancestorsIndexes, LAMBDA f, indexes :
    IF f.found
    THEN [e |-> e, index |-> f.index, node |-> node, ancestorsIndexes |-> indexes]
    ELSE IF isLeaf(node)
    THEN IF exact
         THEN [e |-> e, index |-> -1, node |-> node, ancestorsIndexes |-> indexes]
         ELSE [e |-> e, index |-> f.index, node |-> node, ancestorsIndexes |-> indexes]
    ELSE IF f.index >= Len(node.childNodes) \/ Len(indexes) > MaxPages + 1
    THEN [e |-> Fail(e, "panic"), index |-> -1, node |-> node,
          ancestorsIndexes |-> indexes]
    ELSE With(getNode(e, node.childNodes[f.index + 1]), LAMBDA next :
           IF next.e.st # "ok"
           THEN [e |-> next.e, index |-> -1, node |-> node,
                 ancestorsIndexes |-> indexes]
           ELSE findKeyHelper(next.e, next.node, key, exact,
                              Append(indexes, f.index))))

\* Node.findKey
findKey(e, n, key, exact) == findKeyHelper(e, n, key, exact, <<0>>)

\* Node.addItem
addItem(n, item, insertionIndex) ==
  IF Len(n.items) = insertionIndex
  THEN [n EXCEPT !.items = Append(@, item)]
  ELSE [n EXCEPT !.items = SliceTo(@, insertionIndex) \o <<item>>
                           \o SliceFrom(@, insertionIndex)]

\* split's last statements: the middle item and the new node's page go into
\* the parent n; the parent and the truncated node are written
SplitInto(e, n, left, middleItem, newPage, nodeToSplitIndex) ==
  With(addItem(n, middleItem, nodeToSplitIndex), LAMBDA n1 :
    With(writeNode(e,
           IF Len(n1.childNodes) = nodeToSplitIndex + 1
           THEN [n1 EXCEPT !.childNodes = Append(@, newPage)]
           ELSE [n1 EXCEPT !.childNodes =
                   SliceTo(@, nodeToSplitIndex + 1) \o <<newPage>>
                   \o SliceFrom(@, nodeToSplitIndex + 1)]),
      LAMBDA w1 :
        With(writeNode(w1.e, left), LAMBDA w2 :
          [e |-> w2.e, n |-> w1.node, nodeToSplit |-> w2.node])))

\* a split whose new right node gets the items but none of the children
splitItemsOnly(e, n, nodeToSplit, nodeToSplitIndex) ==
  With(getSplitIndex(nodeToSplit), LAMBDA splitIndex :
    IF e.st # "ok" THEN [e |-> e, n |-> n, nodeToSplit |-> nodeToSplit]
    ELSE IF splitIndex < 0
    THEN [e |-> Fail(e, "panic"), n |-> n, nodeToSplit |-> nodeToSplit]
    ELSE With(dalNewNode(e, SliceFrom(nodeToSplit.items, splitIndex + 1), <<>>),
           LAMBDA created :
             With(writeNode(created.e, created.node), LAMBDA newNode :
               SplitInto(newNode.e, n,
                 IF isLeaf(nodeToSplit)
                 THEN [nodeToSplit EXCEPT !.items = SliceTo(@, splitIndex)]
                 ELSE [nodeToSplit EXCEPT
                         !.items = SliceTo(@, splitIndex),
                         !.childNodes = SliceTo(@, splitIndex + 1)],
                 nodeToSplit.items[splitIndex + 1],
                 newNode.node.pageNum, nodeToSplitIndex))))

\* Node.split: n is the parent of the over-populated nodeToSplit
split(e, n, nodeToSplit, nodeToSplitIndex) ==
  With(getSplitIndex(nodeToSplit), LAMBDA splitIndex :
    IF e.st # "ok" THEN [e |-> e, n |-> n, nodeToSplit |-> nodeToSplit]
    ELSE IF splitIndex < 0
    THEN [e |-> Fail(e, "panic"), n |-> n, nodeToSplit |-> nodeToSplit]
    ELSE With(dalNewNode(e, SliceFrom(nodeToSplit.items, splitIndex + 1),
                IF isLeaf(nodeToSplit) THEN <<>>
                ELSE SliceFrom(nodeToSplit.childNodes, splitIndex + 1)),
           LAMBDA created :
             With(writeNode(created.e, created.node), LAMBDA newNode :
               SplitInto(newNode.e, n,
                 IF isLeaf(nodeToSplit)
                 THEN [nodeToSplit EXCEPT !.items = SliceTo(@, splitIndex)]
                 ELSE [nodeToSplit EXCEPT
                         !.items = SliceTo(@, splitIndex),
                         !.childNodes = SliceTo(@, splitIndex + 1)],
                 nodeToSplit.items[splitIndex + 1],
                 newNode.node.pageNum, nodeToSplitIndex))))

\* Node.removeItemFromLeaf
removeItemFromLeaf(e, n, index) ==
  With(writeNode(e, [n EXCEPT !.items = SliceTo(@, index) \o SliceFrom(@, index + 1)]),
    LAMBDA w : [e |-> w.e, n |-> w.node])

\* the loop of removeItemFromInternal: down from lNode while it is no leaf,
\* each time by the index len(n.childNodes)-1 of the node n the item is in
RECURSIVE DescendFrom(_, _, _, _)
DescendFrom(e, n, lNode, affectedNodes) ==
  With(affectedNodes, LAMBDA affected :
    IF e.st # "ok" \/ isLeaf(lNode)
    THEN [e |-> e, lNode |-> lNode, affectedNodes |-> affected]
    ELSE LET rIndex == Len(n.childNodes) - 1
         IN  IF rIndex >= Len(lNode.childNodes) \/ Len(affected) > MaxPages + 1
             THEN [e |-> Fail(e, "panic"), lNode |-> lNode, affectedNodes |-> affected]
             ELSE With(getNode(e, lNode.childNodes[rIndex + 1]), LAMBDA next :
                    DescendFrom(next.e, n, next.node, Append(affected, rIndex))))

\* Node.removeItemFromInternal
removeItemFromInternal(e, n, index) ==
  With(getNode(e, n.childNodes[index + 1]), LAMBDA first :
    With(DescendFrom(first.e, n, first.node, <<index>>), LAMBDA down :
      IF down.e.st # "ok" THEN [e |-> down.e, n |-> n, affectedNodes |-> <<>>]
      ELSE IF Len(down.lNode.items) = 0
      THEN [e |-> Fail(down.e, "panic"), n |-> n, affectedNodes |-> <<>>]
      ELSE With(writeNode(down.e,
                  [n EXCEPT !.items[index + 1] =
                              down.lNode.items[Len(down.lNode.items)]]),
             LAMBDA w1 :
               With(writeNode(w1.e,
                      [down.lNode EXCEPT !.items = SliceTo(@, Len(@) - 1)]),
                 LAMBDA w2 :
                   [e |-> w2.e, n |-> w1.node,
                    affectedNodes |-> down.affectedNodes]))))

\* rotateRight: the last item of leftNode goes up, the parent's item comes
\* down to the front of rightNode
rotateRight(leftNode, rightNode, parentNode, rightNodeIndex) ==
  LET leftNodeItem == leftNode.items[Len(leftNode.items)]
      pNodeIndex == IF isFirst(rightNodeIndex - 1) THEN 0 ELSE rightNodeIndex - 1
      pNodeItem == parentNode.items[pNodeIndex + 1]
      l1 == [leftNode EXCEPT !.items = SliceTo(@, Len(@) - 1)]
      p1 == [parentNode EXCEPT !.items[pNodeIndex + 1] = leftNodeItem]
      r1 == [rightNode EXCEPT !.items = <<pNodeItem>> \o @]
  IN  IF Len(leftNode.items) = 0 \/ pNodeIndex < 0
         \/ pNodeIndex >= Len(parentNode.items)
      THEN [ok |-> FALSE, left |-> leftNode, right |-> rightNode, parent |-> parentNode]
      ELSE IF ~isLeaf(leftNode)
      THEN [ok |-> TRUE,
            left |-> [l1 EXCEPT !.childNodes = SliceTo(@, Len(@) - 1)],
            right |-> [r1 EXCEPT !.childNodes =
                         <<leftNode.childNodes[Len(leftNode.childNodes)]>> \o @],
            parent |-> p1]
      ELSE [ok |-> TRUE, left |-> l1, right |-> r1, parent |-> p1]

\* rotateLeft: the first item of rightNode goes up, the parent's item comes
\* down to the back of leftNode
rotateLeft(leftNode, rightNode, parentNode, rightNodeIndex) ==
  LET rightNodeItem == rightNode.items[1]
      pNodeIndex == IF isLast(rightNodeIndex, parentNode)
                    THEN Len(parentNode.items) - 1 ELSE rightNodeIndex
      pNodeItem == parentNode.items[pNodeIndex + 1]
      r1 == [rightNode EXCEPT !.items = SliceFrom(@, 1)]
      p1 == [parentNode EXCEPT !.items[pNodeIndex + 1] = rightNodeItem]
      l1 == [leftNode EXCEPT !.items = Append(@, pNodeItem)]
  IN  IF Len(rightNode.items) = 0 \/ pNodeIndex < 0
         \/ pNodeIndex >= Len(parentNode.items)
      THEN [ok |-> FALSE, left |-> leftNode, right |-> rightNode, parent |-> parentNode]
      ELSE IF ~isLeaf(rightNode)
      THEN [ok |-> TRUE,
            left |-> [l1 EXCEPT !.childNodes = Append(@, rightNode.childNodes[1])],
            right |-> [r1 EXCEPT !.childNodes = SliceFrom(@, 1)],
            parent |-> p1]
      ELSE [ok |-> TRUE, left |-> l1, right |-> r1, parent |-> p1]

\* Node.merge: bNode, the child at bNodeIndex, goes into its left sibling
merge(e, n, bNode, bNodeIndex) ==
  IF e.st # "ok" THEN [e |-> e, n |-> n]
  ELSE IF bNodeIndex - 1 >= Len(n.childNodes) \/ bNodeIndex - 1 < 0
  THEN [e |-> Fail(e, "panic"), n |-> n]
  ELSE With(getNode(e, n.childNodes[bNodeIndex]), LAMBDA got :
         IF got.e.st # "ok" THEN [e |-> got.e, n |-> n]
         ELSE IF bNodeIndex - 1 >= Len(n.items)
         THEN [e |-> Fail(got.e, "panic"), n |-> n]
         ELSE With(writeNode(got.e,
                     [got.node EXCEPT
                        !.items = (@ \o <<n.items[bNodeIndex]>>) \o bNode.items,
                        !.childNodes = IF Len(@) # 0 THEN @ \o bNode.childNodes
                                       ELSE @]),
                LAMBDA w1 :
                  With(writeNode(w1.e,
                         [n EXCEPT
                            !.items = SliceTo(@, bNodeIndex - 1)
                                      \o SliceFrom(@, bNodeIndex),
                            !.childNodes = SliceTo(@, bNodeIndex)
                                           \o SliceFrom(@, bNodeIndex + 1)]),
                    LAMBDA w2 :
                      [e |-> dalDeleteNode(w2.e, bNode.pageNum), n |-> w2.node])))

\* rebalanceRemove after a rotation: the three nodes are written, the
\* parent as the second
WriteRotated(e, n, rot, first, third) ==
  IF ~rot.ok THEN [e |-> Fail(e, "panic"), n |-> n]
  ELSE With(writeNode(e, first), LAMBDA w1 :
         With(writeNode(w1.e, rot.parent), LAMBDA w2 :
           With(writeNode(w2.e, third), LAMBDA w3 :
             [e |-> w3.e, n |-> w2.node])))

\* rebalanceRemove from its second if on: rotate left, else merge
RebalanceRight(e, n, unbalancedNode, i) ==
  IF i # Len(n.childNodes) - 1
  THEN IF i + 1 >= Len(n.childNodes) \/ i + 1 < 0
       THEN [e |-> Fail(e, "panic"), n |-> n]
       ELSE With(getNode(e, n.childNodes[i + 2]), LAMBDA gotR :
              IF gotR.e.st # "ok" THEN [e |-> gotR.e, n |-> n]
              ELSE IF canSpareAnElement(gotR.node)
              THEN With(rotateLeft(unbalancedNode, gotR.node, n, i), LAMBDA rot :
                     WriteRotated(e, n, rot, rot.left, rot.right))
              ELSE IF i = 0 THEN merge(e, n, gotR.node, i + 1)
              ELSE merge(e, n, unbalancedNode, i))
  ELSE IF i = 0 THEN [e |-> Fail(e, "panic"), n |-> n]
  ELSE merge(e, n, unbalancedNode, i)

\* Node.rebalanceRemove: n is the parent of the under-populated node at
\* unbalancedNodeIndex; rotate right, else rotate left, else merge
rebalanceRemove(e, n, unbalancedNode, unbalancedNodeIndex) ==
  IF e.st # "ok" THEN [e |-> e, n |-> n]
  ELSE IF unbalancedNodeIndex # 0
  THEN IF unbalancedNodeIndex - 1 >= Len(n.childNodes) \/ unbalancedNodeIndex - 1 < 0
       THEN [e |-> Fail(e, "panic"), n |-> n]
       ELSE With(getNode(e, n.childNodes[unbalancedNodeIndex]), LAMBDA gotL :
              IF gotL.e.st # "ok" THEN [e |-> gotL.e, n |-> n]
              ELSE IF canSpareAnElement(gotL.node)
              THEN With(rotateRight(gotL.node, unbalancedNode, n, unbalancedNodeIndex),
                     LAMBDA rot : WriteRotated(e, n, rot, rot.left, rot.right))
              ELSE RebalanceRight(e, n, unbalancedNode, unbalancedNodeIndex))
  ELSE RebalanceRight(e, n, unbalancedNode, unbalancedNodeIndex)

(***************************************************************************)
(* The transaction's node calls (src/transaction.go).                      *)
(***************************************************************************)
\* tx.newNode: a node on a fresh page, recorded in allocatedPageNums
txNewNode(e, items, childNodes) ==
  IF e.st # "ok" THEN [e |-> e, node |-> Node(0, items, childNodes)]
  ELSE With(getNextPage(e), LAMBDA got :
         [e |-> [got.e EXCEPT !.allocated = Append(@, got.page)],
          node |-> Node(got.page, items, childNodes)])

\* tx.getNode that keeps every node it reads as a dirty node
txGetNodeDirty(e, pageNum) ==
  IF e.st = "ok" /\ pageNum \in DOMAIN e.dirty
  THEN [e |-> e, node |-> e.dirty[pageNum]]
  ELSE With(dalGetNode(e, pageNum), LAMBDA got :
         IF got.e.st # "ok" THEN got
         ELSE [e |-> [got.e EXCEPT !.dirty = (pageNum :> got.node) @@ @],
               node |-> got.node])

\* tx.getNode: the dirty node if there is one, else the page store's
txGetNode(e, pageNum) ==
  IF e.st = "ok" /\ pageNum \in DOMAIN e.dirty
  THEN [e |-> e, node |-> e.dirty[pageNum]]
  ELSE dalGetNode(e, pageNum)

\* tx.writeNode: the node becomes the dirty node of its page
txWriteNode(e, node) ==
  IF e.st # "ok" THEN [e |-> e, node |-> node]
  ELSE [e |-> [e EXCEPT !.dirty = (node.pageNum :> [node EXCEPT !.shared = TRUE]) @@ @],
        node |-> [node EXCEPT !.shared = TRUE]]

\* tx.deleteNode: the page is released when the transaction commits
txDeleteNode(e, node) ==
  IF e.st # "ok" THEN e ELSE [e EXCEPT !.toDelete = Append(@, node.pageNum)]

(***************************************************************************)
(* Collections: spec.md sections 4.3 (Search, Insert, Delete) and 4.5.     *)
(* A collection is its root page number; the node algorithms it calls are  *)
(* the Node methods above.                                                 *)
(***************************************************************************)
\* the nodes along an index path from the root, each read through the
\* transaction
RECURSIVE GetNodesFrom(_, _, _, _)
GetNodesFrom(e, nodes, indexes, i) ==
  IF e.st # "ok" \/ i > Len(indexes) THEN [e |-> e, nodes |-> nodes]
  ELSE LET parent == nodes[Len(nodes)]
           idx == indexes[i]
       IN  IF idx < 0 \/ idx >= Len(parent.childNodes)
           THEN [e |-> Fail(e, "panic"), nodes |-> nodes]
           ELSE With(txGetNode(e, parent.childNodes[idx + 1]), LAMBDA got :
                  With(Append(nodes, got.node), LAMBDA more :
                    GetNodesFrom(got.e, more, indexes, i + 1)))

getNodes(e, root, indexes) ==
  With(txGetNode(e, root), LAMBDA got :
    GetNodesFrom(got.e, <<got.node>>, indexes, 2))

\* Find: the value of key, if the tree holds it
CollectionFind(e, root, key) ==
  With(txGetNode(e, root), LAMBDA got :
    With(findKey(got.e, got.node, key, TRUE), LAMBDA f :
      IF f.e.st # "ok" THEN [st |-> f.e.st, found |-> FALSE, value |-> <<>>]
      ELSE IF f.index = -1 THEN [st |-> "ok", found |-> FALSE, value |-> <<>>]
      ELSE [st |-> "ok", found |-> TRUE, value |-> f.node.items[f.index + 1].value]))

\* Insert step 4: from the leaf's parent up to the root, a parent splits
\* its over-populated child.  i is the parent's position in the path.
RECURSIVE SplitAncestors(_, _, _, _)
SplitAncestors(e, ancestors, ancestorsIndexes, i) ==
  IF e.st # "ok" \/ i < 1 THEN [e |-> e, ancestors |-> ancestors]
  ELSE IF isOverPopulated(ancestors[i + 1])
  THEN With(split(e, ancestors[i], ancestors[i + 1], ancestorsIndexes[i + 1]),
         LAMBDA sp :
           With([ancestors EXCEPT ![i] = sp.n, ![i + 1] = sp.nodeToSplit],
             LAMBDA changed : SplitAncestors(sp.e, changed, ancestorsIndexes, i - 1)))
  ELSE SplitAncestors(e, ancestors, ancestorsIndexes, i - 1)

\* Insert step 5: a new root over the over-populated root
SplitRoot(e, root, rootNode) ==
  With(txNewNode(e, <<>>, <<rootNode.pageNum>>), LAMBDA fresh :
    With(split(fresh.e, fresh.node, rootNode, 0), LAMBDA sp :
      With(txWriteNode(sp.e, sp.n), LAMBDA newRoot :
        [e |-> newRoot.e,
         root |-> IF newRoot.e.st = "ok" THEN newRoot.node.pageNum ELSE root])))

\* Insert steps 4 and 5, after the leaf was written
PutRebalance(e, root, ancestorsIndexes) ==
  With(getNodes(e, root, ancestorsIndexes), LAMBDA path :
    With(SplitAncestors(path.e, path.nodes, ancestorsIndexes, Len(path.nodes) - 1),
      LAMBDA up :
        IF up.e.st # "ok" THEN [e |-> up.e, root |-> root]
        ELSE IF isOverPopulated(up.ancestors[1])
        THEN SplitRoot(up.e, root, up.ancestors[1])
        ELSE [e |-> up.e, root |-> root]))

\* Put: [e, root], root being the collection's root afterwards
CollectionPut(e, root, key, value) ==
  With(txGetNode(e, root), LAMBDA got :
    With(findKey(got.e, got.node, key, FALSE), LAMBDA f :
      IF f.e.st # "ok" THEN [e |-> f.e, root |-> root]
      ELSE With(writeNode(f.e,
                  IF f.index < Len(f.node.items)
                     /\ Compare(f.node.items[f.index + 1].key, key) = 0
                  THEN [f.node EXCEPT !.items[f.index + 1] = newItem(key, value)]
                  ELSE addItem(f.node, newItem(key, value), f.index)),
             LAMBDA wrote : PutRebalance(wrote.e, root, f.ancestorsIndexes))))

\* Delete step 4: from the bottom of the path up, a parent rebalances its
\* under-populated child
RECURSIVE RebalanceAncestors(_, _, _, _)
RebalanceAncestors(e, ancestors, ancestorsIndexes, i) ==
  IF e.st # "ok" \/ i < 1 THEN [e |-> e, ancestors |-> ancestors]
  ELSE IF isUnderPopulated(ancestors[i + 1])
  THEN With(rebalanceRemove(e, ancestors[i], ancestors[i + 1], ancestorsIndexes[i + 1]),
         LAMBDA rb :
           With([ancestors EXCEPT ![i] = rb.n], LAMBDA changed :
             RebalanceAncestors(rb.e, changed, ancestorsIndexes, i - 1)))
  ELSE RebalanceAncestors(e, ancestors, ancestorsIndexes, i - 1)

\* Delete steps 4 and 5, after the item was removed
RemoveRebalance(e, root, indexes) ==
  With(getNodes(e, root, indexes), LAMBDA path :
    With(RebalanceAncestors(path.e, path.nodes, indexes, Len(path.nodes) - 1),
      LAMBDA up :
        IF up.e.st # "ok" THEN [e |-> up.e, root |-> root, res |-> up.e.st]
        ELSE IF Len(up.ancestors[1].items) = 0 /\ Len(up.ancestors[1].childNodes) = 1
        THEN [e |-> txDeleteNode(up.e, up.ancestors[1]),
              root |-> up.ancestors[1].childNodes[1], res |-> "ok"]
        ELSE [e |-> up.e, root |-> root, res |-> "ok"]))

\* Remove: [e, root, res], res "KeyNotFound" when the tree does not hold key
CollectionRemove(e, root, key) ==
  With(txGetNode(e, root), LAMBDA got :
    With(findKey(got.e, got.node, key, TRUE), LAMBDA f :
      IF f.e.st # "ok" THEN [e |-> f.e, root |-> root, res |-> f.e.st]
      ELSE IF f.index = -1 THEN [e |-> f.e, root |-> root, res |-> "KeyNotFound"]
      ELSE IF isLeaf(f.node)
      THEN With(removeItemFromLeaf(f.e, f.node, f.index), LAMBDA fromLeaf :
             RemoveRebalance(fromLeaf.e, root, f.ancestorsIndexes))
      ELSE With(removeItemFromInternal(f.e, f.node, f.index), LAMBDA fromInternal :
             IF fromInternal.e.st # "ok"
             THEN [e |-> fromInternal.e, root |-> root, res |-> fromInternal.e.st]
             ELSE RemoveRebalance(fromInternal.e, root,
                    f.ancestorsIndexes \o fromInternal.affectedNodes))))

\* Collection.serialize: the value of a collection's item, its root page
\* number as 8 bytes; and the root page number Collection.deserialize reads
CollectionValue(root) == LEBytes(root, pageNumSize)

CollectionRoot(value) ==
  IF Len(value) < pageNumSize THEN 0
  ELSE LEValue(SubSeq(value, 1, pageNumSize))

(***************************************************************************)
(* The store and its transactions.                                         *)
(***************************************************************************)
\* transaction handles, collection names, keys and values of the calls
MaxTx == 3
MaxNames == 1
MaxKey == 1
TreeMaxKey == 6
DeepMaxKey == 13
ValLen == 11
LongValLen == 24

Txs == 1..MaxTx
Names == {<<n>> : n \in 1..MaxNames}
KeyOf(k) == <<k>>
KeyNums == 1..DeepMaxKey
AllKeys == {KeyOf(k) : k \in KeyNums}
ValueOf(len) == [j \in 1..len |-> len]
\* every key may be put with the short value, the keys of LongKeys also with
\* the long one
LongKeys == {2, 4, 7, 9}
ValuesFor(k) == IF k \in LongKeys THEN {ValueOf(ValLen), ValueOf(LongValLen)}
                ELSE {ValueOf(ValLen)}

VARIABLES
  pages,      \* the file's node pages
  disk,       \* the file's meta and free-list pages: [root, fl]
  root,       \* dal.root, the root page of the collections tree
  fl,         \* dal.freelist
  rwlock,     \* DB.rwlock: [readers, writer]
  txs,        \* the transactions handed out, by handle
  last,       \* the last call and what it returned
  committed,  \* what the last successful Commit left to read
  crashed     \* the process ended with a fatal error or a panic

vars == <<pages, disk, root, fl, rwlock, txs, last, committed, crashed>>

NoCall == [op |-> "none", t |-> 0, res |-> "ok"]

Call(op, t, res) == [op |-> op, t |-> t, res |-> res]

\* newTx
newTx(write) ==
  [state |-> "active", write |-> write, dirty |-> <<>>, toDelete |-> <<>>,
   allocated |-> <<>>, coll |-> [n \in Names |-> 0], begin |-> <<>>]

NoTx == [newTx(FALSE) EXCEPT !.state = "new"]

\* a transaction whose Commit or Rollback has returned: the handle stays
\* with the caller, who may call it again
Finished(tx) == [newTx(tx.write) EXCEPT !.state = "done"]

\* the environment of a call made through transaction t
Env(t) ==
  [pages |-> pages, fl |-> fl, dirty |-> txs[t].dirty,
   allocated |-> txs[t].allocated, toDelete |-> txs[t].toDelete, st |-> "ok"]

\* the environment of a reader that holds no dirty node
ReadEnv(pgs) ==
  [pages |-> pgs, fl |-> [maxPage |-> 0, releasedPages |-> <<>>], dirty |-> <<>>,
   allocated |-> <<>>, toDelete |-> <<>>, st |-> "ok"]

\* what Find returns for key in the collection rooted at collRoot, to a
\* caller whose dirty nodes are dirty
FindIn(pgs, dirty, collRoot, key) ==
  With(CollectionFind([ReadEnv(pgs) EXCEPT !.dirty = dirty], collRoot, key),
    LAMBDA f :
      IF f.st # "ok" THEN <<f.st>>
      ELSE IF f.found THEN <<"value", f.value>>
      ELSE <<"nil">>)

\* what a transaction with the dirty nodes dirty reads: for every name
\* whether the collections tree rooted at rt has the collection, and what
\* Find returns for every key, through the handle of handles if the
\* transaction holds one and else through the one GetCollection returns
TxView(pgs, dirty, rt, handles) ==
  [n \in Names |->
     With(CollectionFind([ReadEnv(pgs) EXCEPT !.dirty = dirty], rt, n), LAMBDA c :
       IF c.st # "ok" THEN <<c.st>>
       ELSE IF ~c.found THEN <<"nil">>
       ELSE With(IF handles[n] # 0 THEN handles[n] ELSE CollectionRoot(c.value),
              LAMBDA collRoot :
                <<"collection", [k \in AllKeys |-> FindIn(pgs, dirty, collRoot, k)]>>))]

\* what GetCollection(name) and then Find of every key return to a new
\* transaction
View(pgs, rt) == TxView(pgs, <<>>, rt, [n \in Names |-> 0])

\* Open of a new file: meta page 0, free-list page 1, and an empty root
\* node of the collections tree on page 2
Init ==
  \E first \in {dalWriteNode([ReadEnv(<<>>) EXCEPT !.fl.maxPage = 1],
                             Node(0, <<>>, <<>>))} :
      /\ pages = first.e.pages
      /\ fl = first.e.fl
      /\ root = first.node.pageNum
      /\ disk = [root |-> first.node.pageNum, fl |-> first.e.fl]
      /\ rwlock = [readers |-> 0, writer |-> FALSE]
      /\ txs = [t \in Txs |-> NoTx]
      /\ last = NoCall
      /\ committed = View(first.e.pages, first.node.pageNum)
      /\ crashed = FALSE

\* what a call through transaction t leaves in the store and in t; colls
\* are t's collection handles after the call.  A panic ends the process.
Leaves(t, e, colls) ==
  /\ e.st # "full"
  /\ pages' = e.pages
  /\ fl' = e.fl
  /\ txs' = [txs EXCEPT ![t].dirty = e.dirty, ![t].allocated = e.allocated,
                        ![t].toDelete = e.toDelete, ![t].coll = colls]
  /\ crashed' = (e.st = "panic")

\* transaction t has begun and neither its Commit nor its Rollback returned
Active(t) == ~crashed /\ txs[t].state = "active"

\* DB.ReadTx: RLock, then a read transaction
ReadTx(t) ==
  /\ ~crashed
  /\ txs[t].state = "new"
  /\ ~rwlock.writer
  /\ rwlock' = [rwlock EXCEPT !.readers = @ + 1]
  /\ txs' = [txs EXCEPT ![t] = [newTx(FALSE) EXCEPT !.begin = committed]]
  /\ last' = Call("ReadTx", t, "ok")
  /\ UNCHANGED <<pages, disk, root, fl, committed, crashed>>

\* DB.WriteTx: Lock, then a write transaction
WriteTx(t) ==
  /\ ~crashed
  /\ txs[t].state = "new"
  /\ ~rwlock.writer
  /\ rwlock.readers = 0
  /\ rwlock' = [rwlock EXCEPT !.writer = TRUE]
  /\ txs' = [txs EXCEPT ![t] = [newTx(TRUE) EXCEPT
                                  !.begin = [pages |-> pages, fl |-> fl,
                                             root |-> root]]]
  /\ last' = Call("WriteTx", t, "ok")
  /\ UNCHANGED <<pages, disk, root, fl, committed, crashed>>

\* sync.RWMutex: RUnlock with no reader, and Unlock with no writer, are
\* fatal errors; otherwise they release whoever holds the lock
RUnlock(lock) ==
  IF lock.readers = 0 THEN [ok |-> FALSE, lock |-> lock]
  ELSE [ok |-> TRUE, lock |-> [lock EXCEPT !.readers = @ - 1]]

Unlock(lock) ==
  IF ~lock.writer THEN [ok |-> FALSE, lock |-> lock]
  ELSE [ok |-> TRUE, lock |-> [lock EXCEPT !.writer = FALSE]]

\* the orders in which a range over the map tx.dirtyNodes may visit it
Orders(S) ==
  {o \in [1..Cardinality(S) -> S] : \A i, j \in 1..Cardinality(S) : o[i] = o[j] => i = j}

\* Commit's loop over dirtyNodes, the first upto nodes of the order written
RECURSIVE WriteDirty(_, _, _)
WriteDirty(e, order, upto) ==
  IF upto = 0 THEN e
  ELSE With(WriteDirty(e, order, upto - 1), LAMBDA before :
         dalWriteNode(before, before.dirty[order[upto]]).e)

\* tx.Commit returning nil.  A read transaction only releases its read
\* lock.  A write transaction writes its dirty nodes, releases the pages
\* to delete, writes the free-list, clears itself and unlocks.  Nothing
\* asks whether the transaction has finished before.
Commit(t) ==
  /\ ~crashed
  /\ txs[t].state \in {"active", "done"}
  /\ IF ~txs[t].write
     THEN \E un \in {RUnlock(rwlock)} :
              /\ rwlock' = un.lock
              /\ crashed' = ~un.ok
              /\ txs' = [txs EXCEPT ![t] = Finished(txs[t])]
              /\ last' = Call("Commit", t, IF un.ok THEN "ok" ELSE "fatal")
              /\ UNCHANGED <<pages, disk, root, fl, committed>>
     ELSE \E order \in Orders(DOMAIN txs[t].dirty) :
          \E wrote \in {WriteDirty(Env(t), order, Len(order))} :
          \E freed \in {releasePages(wrote.fl, txs[t].toDelete)} :
          \E un \in {Unlock(rwlock)} :
              IF wrote.st # "ok"
              THEN /\ pages' = wrote.pages
                   /\ crashed' = TRUE
                   /\ last' = Call("Commit", t, wrote.st)
                   /\ UNCHANGED <<disk, root, fl, rwlock, txs, committed>>
              ELSE /\ pages' = wrote.pages
                   /\ fl' = freed
                   /\ disk' = [disk EXCEPT !.fl = freed]
                   /\ txs' = [txs EXCEPT ![t] = Finished(txs[t])]
                   /\ rwlock' = un.lock
                   /\ crashed' = ~un.ok
                   /\ committed' = TxView(pages, txs[t].dirty, root, txs[t].coll)
                   /\ last' = Call("Commit", t, IF un.ok THEN "ok" ELSE "fatal")
                   /\ UNCHANGED root

\* tx.Commit returning the error of a write: of the dirty node after the
\* first upto ones, or of the free-list.  It returns at once.
CommitFail(t) ==
  /\ ~crashed
  /\ txs[t].state = "active"
  /\ txs[t].write
  /\ \E order \in Orders(DOMAIN txs[t].dirty) : \E upto \in 0..Len(order) :
       \E wrote \in {WriteDirty(Env(t), order, upto)} :
           /\ wrote.st = "ok"
           /\ pages' = wrote.pages
           /\ fl' = IF upto = Len(order) THEN releasePages(wrote.fl, txs[t].toDelete)
                    ELSE fl
  /\ last' = Call("Commit", t, "err")
  /\ UNCHANGED <<disk, root, rwlock, txs, committed, crashed>>

\* tx.Rollback
Rollback(t) ==
  /\ ~crashed
  /\ txs[t].state \in {"active", "done"}
  /\ \E un \in {IF txs[t].write THEN Unlock(rwlock) ELSE RUnlock(rwlock)} :
         /\ rwlock' = un.lock
         /\ crashed' = ~un.ok
         /\ last' = Call("Rollback", t, IF un.ok THEN "ok" ELSE "fatal")
  /\ fl' = IF txs[t].write THEN releasePages(fl, txs[t].allocated) ELSE fl
  /\ txs' = [txs EXCEPT ![t] = Finished(txs[t])]
  /\ UNCHANGED <<pages, disk, root, committed>>

\* the result a call reports for the environment it ended in
Result(e) == e.st

\* tx.GetCollection: Find the name in the collections tree, deserialize
GetCollection(t, name) ==
  /\ ~crashed
  /\ txs[t].state = "active"
  /\ \E c \in {CollectionFind(Env(t), root, name)} :
         /\ txs' = [txs EXCEPT ![t].coll[name] =
                      IF c.st = "ok" /\ c.found THEN CollectionRoot(c.value) ELSE 0]
         /\ crashed' = (c.st = "panic")
         /\ last' = Call("GetCollection", t, IF c.st # "ok" THEN c.st
                         ELSE IF c.found THEN "ok" ELSE "nil")
  /\ UNCHANGED <<pages, disk, root, fl, rwlock, committed>>

\* tx.CreateCollection without its test of tx.write
CreateCollectionUnchecked(t, name) ==
  /\ ~crashed
  /\ txs[t].state = "active"
  /\ \E newCollectionPage \in {dalWriteNode(Env(t), Node(0, <<>>, <<>>))} :
     \E put \in {CollectionPut(newCollectionPage.e, root, name,
                    CollectionValue(newCollectionPage.node.pageNum))} :
         /\ Leaves(t, put.e,
                   IF put.e.st = "ok"
                   THEN [txs[t].coll EXCEPT ![name] = newCollectionPage.node.pageNum]
                   ELSE txs[t].coll)
         /\ root' = put.root
         /\ last' = Call("CreateCollection", t, Result(put.e))
         /\ UNCHANGED <<disk, rwlock, committed>>

\* tx.CreateCollection: an empty node written at once to a page of its
\* own, then the collection's item put into the collections tree
CreateCollection(t, name) ==
  /\ ~crashed
  /\ txs[t].state = "active"
  /\ IF ~txs[t].write
     THEN /\ last' = Call("CreateCollection", t, "WriteInsideReadTx")
          /\ UNCHANGED <<pages, disk, root, fl, rwlock, txs, committed, crashed>>
     ELSE \E newCollectionPage \in {dalWriteNode(Env(t), Node(0, <<>>, <<>>))} :
          \E put \in {CollectionPut(newCollectionPage.e, root, name,
                         CollectionValue(newCollectionPage.node.pageNum))} :
              /\ Leaves(t, put.e,
                        IF put.e.st = "ok"
                        THEN [txs[t].coll EXCEPT ![name] = newCollectionPage.node.pageNum]
                        ELSE txs[t].coll)
              /\ root' = put.root
              /\ last' = Call("CreateCollection", t, Result(put.e))
              /\ UNCHANGED <<disk, rwlock, committed>>

\* tx.DeleteCollection: the collection's item removed from the collections
\* tree
DeleteCollection(t, name) ==
  /\ ~crashed
  /\ txs[t].state = "active"
  /\ IF ~txs[t].write
     THEN /\ last' = Call("DeleteCollection", t, "WriteInsideReadTx")
          /\ UNCHANGED <<pages, disk, root, fl, rwlock, txs, committed, crashed>>
     ELSE \E rem \in {CollectionRemove(Env(t), root, name)} :
              /\ Leaves(t, rem.e, txs[t].coll)
              /\ root' = rem.root
              /\ last' = Call("DeleteCollection", t, rem.res)
              /\ UNCHANGED <<disk, rwlock, committed>>

\* what Collection.Put and Collection.Remove, called through the handle
\* transaction t holds for name, return and leave
PutResult(t, name, key, value) ==
  CollectionPut(Env(t), txs[t].coll[name], key, value)

RemoveResult(t, name, key) == CollectionRemove(Env(t), txs[t].coll[name], key)

\* Collection.Put through the handle transaction t holds for name
Put(t, name, key, value) ==
  /\ ~crashed
  /\ txs[t].state = "active"
  /\ txs[t].coll[name] # 0
  /\ IF ~txs[t].write
     THEN /\ last' = Call("Put", t, "WriteInsideReadTx")
          /\ UNCHANGED <<pages, disk, root, fl, rwlock, txs, committed, crashed>>
     ELSE \E put \in {PutResult(t, name, key, value)} :
              /\ Leaves(t, put.e, [txs[t].coll EXCEPT ![name] = put.root])
              /\ last' = Call("Put", t, Result(put.e))
              /\ UNCHANGED <<disk, root, rwlock, committed>>

\* Collection.Remove through the handle transaction t holds for name
Remove(t, name, key) ==
  /\ ~crashed
  /\ txs[t].state = "active"
  /\ txs[t].coll[name] # 0
  /\ IF ~txs[t].write
     THEN /\ last' = Call("Remove", t, "WriteInsideReadTx")
          /\ UNCHANGED <<pages, disk, root, fl, rwlock, txs, committed, crashed>>
     ELSE \E rem \in {RemoveResult(t, name, key)} :
              /\ Leaves(t, rem.e, [txs[t].coll EXCEPT ![name] = rem.root])
              /\ last' = Call("Remove", t, rem.res)
              /\ UNCHANGED <<disk, root, rwlock, committed>>

\* DB.Close when no transaction is running, then Open of the same file:
\* close writes the free-list and the meta page, Open reads them back into
\* a new DB with a lock of its own.  The transactions of the closed DB stay
\* behind with it.
Reopen ==
  /\ ~crashed
  /\ \A t \in Txs : txs[t].state # "active"
  /\ \E t \in Txs : txs[t].state = "done"
  /\ disk' = [root |-> root, fl |-> fl]
  /\ root' = disk'.root
  /\ fl' = disk'.fl
  /\ rwlock' = [readers |-> 0, writer |-> FALSE]
  /\ txs' = [t \in Txs |-> IF txs[t].state = "new" THEN txs[t]
                            ELSE [txs[t] EXCEPT !.state = "closed"]]
  /\ last' = Call("Reopen", 0, "ok")
  /\ UNCHANGED <<pages, committed, crashed>>

\* the calls that take and release the store's lock, from MaxTx threads
\* with a transaction each
Next ==
  \/ \E t \in Txs : ReadTx(t)
  \/ \E t \in Txs : WriteTx(t)
  \/ \E t \in Txs : Commit(t)
  \/ \E t \in Txs : CommitFail(t)
  \/ \E t \in Txs : Rollback(t)

Spec == Init /\ [][Next]_vars

\* transactions that read and write the collections, MaxDataTx of them, in
\* a file of up to MaxFilePages pages
MaxDataTx == 2
MaxFilePages == 4
DataTxs == 1..MaxDataTx

NextData ==
  \/ \E t \in DataTxs : ReadTx(t)
  \/ \E t \in DataTxs : WriteTx(t)
  \/ \E t \in DataTxs : Commit(t)
  \/ \E t \in DataTxs : CommitFail(t)
  \/ \E t \in DataTxs : Rollback(t)
  \/ \E t \in DataTxs, n \in Names : GetCollection(t, n)
  \/ \E t \in DataTxs, n \in Names :
       CreateCollection(t, n) /\ fl'.maxPage <= MaxFilePages
  \/ \E t \in DataTxs, n \in Names : DeleteCollection(t, n)
  \/ \E t \in DataTxs, n \in Names, k \in 1..MaxKey : \E v \in ValuesFor(k) :
       Put(t, n, KeyOf(k), v) /\ fl'.maxPage <= MaxFilePages
  \/ \E t \in DataTxs, n \in Names, k \in 1..MaxKey : Remove(t, n, KeyOf(k))
  \/ Reopen

SpecData == Init /\ [][NextData]_vars

\* one write transaction that builds and prunes the tree of one collection,
\* in a file of up to MaxTreePages pages
MaxTreePages == 6
TreeTx == 1
TreeName == <<1>>

TreeCreate ==
  /\ txs[TreeTx].coll[TreeName] = 0
  /\ CreateCollection(TreeTx, TreeName)

NextTree ==
  \/ WriteTx(TreeTx)
  \/ TreeCreate
  \/ \E k \in 1..TreeMaxKey : \E v \in ValuesFor(k) :
       Put(TreeTx, TreeName, KeyOf(k), v) /\ fl'.maxPage <= MaxTreePages
  \/ \E k \in 1..TreeMaxKey : Remove(TreeTx, TreeName, KeyOf(k))

SpecTree == Init /\ [][NextTree]_vars

\* the same transaction on a tree of three levels: the keys of DeepLoad are
\* put in order into the new collection, one Collection.Put after the other,
\* and then the keys from DeepFirstKey on are put and removed
DeepFirstKey == 9
DeepLastKey == 11
DeepLoad == <<<<1, ValLen>>, <<2, ValLen>>, <<3, ValLen>>, <<4, ValLen>>,
              <<5, ValLen>>, <<7, LongValLen>>, <<8, ValLen>>,
              <<10, ValLen>>, <<9, LongValLen>>>>

RECURSIVE PutAllFrom(_, _, _, _)
PutAllFrom(e, collRoot, load, i) ==
  IF i > Len(load) \/ e.st # "ok"
  THEN [e |-> e, root |-> collRoot]
  ELSE With(CollectionPut(e, collRoot, KeyOf(load[i][1]), ValueOf(load[i][2])),
            LAMBDA put : PutAllFrom(put.e, put.root, load, i + 1))

PutAllOf(load) ==
  /\ last = Call("CreateCollection", TreeTx, "ok")
  /\ \E put \in {PutAllFrom(Env(TreeTx), txs[TreeTx].coll[TreeName], load, 1)} :
       /\ Leaves(TreeTx, put.e, [txs[TreeTx].coll EXCEPT ![TreeName] = put.root])
       /\ last' = Call("Put", TreeTx, Result(put.e))
       /\ UNCHANGED <<disk, root, rwlock, committed>>

PutAll == PutAllOf(DeepLoad)

NextDeep ==
  \/ WriteTx(TreeTx)
  \/ TreeCreate
  \/ PutAll
  \/ \E k \in DeepFirstKey..DeepLastKey : \E v \in ValuesFor(k) :
       last.op \in {"Put", "Remove"} /\ Put(TreeTx, TreeName, KeyOf(k), v)
  \/ \E k \in DeepFirstKey..DeepLastKey :
       last.op \in {"Put", "Remove"} /\ Remove(TreeTx, TreeName, KeyOf(k))

SpecDeep == Init /\ [][NextDeep]_vars

\* the same transaction on a tree of three levels of short values: the keys
\* of TallLoad are put in order, which leaves the root [7] over the internal
\* nodes [2, 5] and [9, 11]; then keys are removed
TallLoad == <<<<1, ValLen>>, <<5, ValLen>>, <<6, ValLen>>, <<7, ValLen>>,
              <<8, ValLen>>, <<9, ValLen>>, <<10, ValLen>>, <<11, ValLen>>,
              <<12, ValLen>>, <<13, ValLen>>, <<2, ValLen>>, <<3, ValLen>>,
              <<4, ValLen>>>>

PutAllTall == PutAllOf(TallLoad)

NextTall ==
  \/ WriteTx(TreeTx)
  \/ TreeCreate
  \/ PutAllTall
  \/ \E k \in KeyNums :
       last.op \in {"Put", "Remove"} /\ Remove(TreeTx, TreeName, KeyOf(k))

SpecTall == Init /\ [][NextTall]_vars

\* a write transaction that ends with a Commit that returns nil, Close and
\* Open, and then a read transaction.  Keys up to ReopenMaxKey are put with
\* the short value.
ReopenMaxKey == 4
ReaderTx == TreeTx + 1

NextReopen ==
  \/ WriteTx(TreeTx)
  \/ TreeCreate
  \/ \E k \in 1..ReopenMaxKey :
       Put(TreeTx, TreeName, KeyOf(k), ValueOf(ValLen)) /\ fl'.maxPage <= MaxTreePages
  \/ \E k \in 1..ReopenMaxKey : Remove(TreeTx, TreeName, KeyOf(k))
  \/ \E t \in {TreeTx, ReaderTx} : Active(t) /\ Commit(t)
  \/ Reopen
  \/ ReadTx(ReaderTx)
  \/ GetCollection(ReaderTx, TreeName)

SpecReopen == Init /\ [][NextReopen]_vars

\* the same transaction with items of two sizes: the short value and one of
\* WideValLen bytes
WideValLen == 31

NextWide ==
  \/ WriteTx(TreeTx)
  \/ TreeCreate
  \/ \E k \in 1..ReopenMaxKey : \E len \in {ValLen, WideValLen} :
       Put(TreeTx, TreeName, KeyOf(k), ValueOf(len)) /\ fl'.maxPage <= MaxTreePages
  \/ \E k \in 1..ReopenMaxKey : Remove(TreeTx, TreeName, KeyOf(k))

SpecWide == Init /\ [][NextWide]_vars

\* a write transaction on one collection that ends by Commit or by Rollback;
\* a Commit may return the error of a write once, and the caller then calls
\* Commit again or Rollback
NextEnd ==
  \/ WriteTx(TreeTx)
  \/ TreeCreate
  \/ \E k \in 1..ReopenMaxKey :
       /\ last.op # "Commit"
       /\ Put(TreeTx, TreeName, KeyOf(k), ValueOf(ValLen))
       /\ fl'.maxPage <= MaxTreePages
  \/ \E k \in 1..ReopenMaxKey :
       last.op # "Commit" /\ Remove(TreeTx, TreeName, KeyOf(k))
  \/ Active(TreeTx) /\ Commit(TreeTx)
  \/ last.op # "Commit" /\ CommitFail(TreeTx)
  \/ Active(TreeTx) /\ Rollback(TreeTx)

SpecEnd == Init /\ [][NextEnd]_vars

(***************************************************************************)
(* The lock and the transactions.                                          *)
(***************************************************************************)
\* C1: in every interleaving of ReadTx, WriteTx, Commit and Rollback calls
\* at most one write transaction is active, and while a write transaction
\* is active no read transaction is active.
LockExclusion ==
  \A t, u \in Txs :
    (t # u /\ Active(t) /\ Active(u)) => (~txs[t].write /\ ~txs[u].write)

\* C9: a Commit or a Rollback called on a transaction whose Commit or
\* Rollback has returned fails with TxAlreadyFinished and does not release
\* the lock again.
FinishedStaysFinished ==
  [][\A t \in Txs :
       (~crashed /\ txs[t].state = "done" /\ (Commit(t) \/ Rollback(t)))
         => (last'.res = "TxAlreadyFinished" /\ rwlock' = rwlock)]_vars

\* the lock calls under a scheduler that lets a thread waiting in ReadTx or
\* WriteTx proceed once the lock allows it; no thread is bound to call
\* anything more on a transaction whose Commit has returned
SpecFair ==
  /\ Init
  /\ [][Next]_vars
  /\ WF_vars(\E t \in Txs : WriteTx(t))
  /\ WF_vars(\E t \in Txs : ReadTx(t))

\* C11: once a write transaction's Commit has returned, with nil or with
\* the error of a write, the exclusive lock is free, so that a waiting
\* WriteTx or ReadTx eventually proceeds.
CommitFreesLock ==
  (last.op = "Commit" /\ last.res \in {"ok", "err"} /\ ~crashed) ~> ~rwlock.writer

\* C2: a read transaction reads, as long as it is active, what the last
\* successful Commit before its RLock left: nothing of a write transaction
\* that is uncommitted, was rolled back, or whose Commit failed part-way.
ReaderSnapshot ==
  \A t \in Txs :
    (Active(t) /\ ~txs[t].write)
      => TxView(pages, txs[t].dirty, root, txs[t].coll) = txs[t].begin

\* C5: after write transactions that each ended with a successful Commit,
\* Close and Open, GetCollection finds every committed collection and find
\* returns for every key the value of the last committed state, also when
\* a commit changed the root page of a collection.
CommittedSurvivesReopen ==
  last.op = "Reopen" => View(pages, root) = committed

\* a write transaction's Rollback that is its first Commit or Rollback
RollsBack(t) == Active(t) /\ txs[t].write /\ Rollback(t)

\* C6: when a write transaction rolls back, the pages of the file, the set
\* of collections and the contents of every collection are what they were
\* when the transaction began.
RollbackRestores ==
  [][\A t \in Txs :
       RollsBack(t)
         => /\ pages' = txs[t].begin.pages
            /\ View(pages', root') = View(txs[t].begin.pages, txs[t].begin.root)]_vars

\* the page numbers the next n calls of getNextPage hand out
RECURSIVE NextPageNums(_, _)
NextPageNums(freelist, n) ==
  IF n = 0 THEN <<>>
  ELSE With(getNextPage([ReadEnv(<<>>) EXCEPT !.fl = freelist]), LAMBDA got :
         <<got.page>> \o NextPageNums(got.e.fl, n - 1))

MaxAllocations == 2

\* C7: Rollback releases every page the write transaction allocated: the
\* next allocations are handed the page numbers they would have been handed
\* when the transaction began.
RollbackReleases ==
  [][\A t \in Txs :
       RollsBack(t)
         => NextPageNums(fl', MaxAllocations)
              = NextPageNums(txs[t].begin.fl, MaxAllocations)]_vars

\* a mutating call made through transaction t
Mutates(t) ==
  \E n \in Names :
    \/ CreateCollection(t, n)
    \/ DeleteCollection(t, n)
    \/ \E k \in KeyNums : \E v \in ValuesFor(k) : Put(t, n, KeyOf(k), v)
    \/ \E k \in KeyNums : Remove(t, n, KeyOf(k))

\* C8: CreateCollection, DeleteCollection, put and remove through a read
\* transaction fail with WriteInsideReadTx and leave the store, the
\* free-list and the lock as they are.
ReadTxCannotWrite ==
  [][\A t \in Txs :
       (Active(t) /\ ~txs[t].write /\ Mutates(t))
         => /\ last'.res = "WriteInsideReadTx"
            /\ UNCHANGED <<pages, disk, root, fl, rwlock, txs>>]_vars

ReadTxCannotWriteWitness ==
  /\ last.op \in {"Put", "Remove"}
  /\ last.res = "WriteInsideReadTx"
  /\ ~txs[last.t].write
  /\ \E n \in Names : txs[last.t].coll[n] # 0

(***************************************************************************)
(* What a transaction reads.                                               *)
(***************************************************************************)
\* Collection.Find through the handle transaction t holds for name
Find(t, name, key) == FindIn(pages, txs[t].dirty, txs[t].coll[name], key)

\* the handles of write transactions that are in use
Writing(t, name) ==
  /\ ~crashed
  /\ txs[t].state = "active"
  /\ txs[t].write
  /\ txs[t].coll[name] # 0

\* the root of the collection is an internal node
HasInternalRoot(t, name) ==
  /\ txs[t].coll[name] \in DOMAIN pages
  /\ pages[txs[t].coll[name]].ok
  /\ Len(pages[txs[t].coll[name]].childNodes) > 0

\* Collection.Find after a call left the environment e and the root collRoot
FindAfter(e, collRoot, key) == FindIn(e.pages, e.dirty, collRoot, key)

\* C3: in a write transaction, a put(k, v) that returns successfully is
\* followed by find(k) = v, and find of every other key returns what it
\* returned before the put, splits of leaves, of internal nodes and of the
\* root included.
PutThenFind ==
  \A t \in Txs, n \in Names :
    Writing(t, n) =>
      \A k \in KeyNums : \A v \in ValuesFor(k) :
        With(PutResult(t, n, KeyOf(k), v), LAMBDA put :
          put.e.st = "ok" =>
            \A k2 \in AllKeys :
              FindAfter(put.e, put.root, k2)
                = IF k2 = KeyOf(k) THEN <<"value", v>> ELSE Find(t, n, k2))

\* C4: in a write transaction, a remove(k) of a present key that returns
\* successfully is followed by find(k) = None, and find of every other key
\* returns what it returned before, whether k was in a leaf or in an internal
\* node and whether the tree rotated or merged.
RemoveThenFind ==
  \A t \in Txs, n \in Names :
    Writing(t, n) =>
      \A k \in KeyNums :
        Find(t, n, KeyOf(k))[1] = "value" =>
          With(RemoveResult(t, n, KeyOf(k)), LAMBDA rem :
            rem.res = "ok" =>
              \A k2 \in AllKeys :
                FindAfter(rem.e, rem.root, k2)
                  = IF k2 = KeyOf(k) THEN <<"nil">> ELSE Find(t, n, k2))

(***************************************************************************)
(* The shape of a tree, as the transaction that works on it reads it.      *)
(***************************************************************************)
\* the node of page p: the dirty node if there is one, else the page's image
NodeOf(pgs, dirty, p) ==
  IF p \in DOMAIN dirty
  THEN [ok |-> TRUE, items |-> dirty[p].items, childNodes |-> dirty[p].childNodes]
  ELSE IF p \in DOMAIN pgs THEN pgs[p]
  ELSE [ok |-> FALSE, items |-> <<>>, childNodes |-> <<>>]

\* the nodes of the tree below page p, each with its depth; a page that
\* cannot be read has no children
RECURSIVE TreeNodes(_, _, _, _)
TreeNodes(pgs, dirty, p, depth) ==
  With(NodeOf(pgs, dirty, p), LAMBDA n :
    {[page |-> p, depth |-> depth, node |-> n]}
      \cup (IF depth > MaxPages \/ ~n.ok THEN {}
            ELSE UNION {TreeNodes(pgs, dirty, n.childNodes[i], depth + 1) :
                          i \in 1..Len(n.childNodes)}))

\* the nodes of the tree transaction t reads through its handle for name
TreeOf(t, name) == TreeNodes(pages, txs[t].dirty, txs[t].coll[name], 0)

\* key bounds: <<>> is no bound, <<k>> is the key k
Above(lo, key) == lo = <<>> \/ Compare(lo[1], key) < 0
Below(key, hi) == hi = <<>> \/ Compare(key, hi[1]) < 0

\* the subtree of page p is a search tree with all keys between lo and hi
RECURSIVE Ordered(_, _, _, _, _, _)
Ordered(pgs, dirty, p, lo, hi, depth) ==
  With(NodeOf(pgs, dirty, p), LAMBDA n :
    /\ depth <= MaxPages
    /\ n.ok
    /\ \A i \in 1..Len(n.items) :
         /\ Above(lo, n.items[i].key)
         /\ Below(n.items[i].key, hi)
         /\ i > 1 => Compare(n.items[i - 1].key, n.items[i].key) < 0
    /\ \A i \in 1..Len(n.childNodes) :
         Ordered(pgs, dirty, n.childNodes[i],
                 IF i > 1 /\ i - 1 <= Len(n.items) THEN <<n.items[i - 1].key>> ELSE lo,
                 IF i <= Len(n.items) THEN <<n.items[i].key>> ELSE hi,
                 depth + 1))

\* every page of the tree can be read
Readable(tree) == \A x \in tree : x.node.ok

\* C12: after successful puts and removes the keys of every node are
\* strictly ascending and every tree is a search tree: the keys below
\* child i lie between item i-1 and item i.
SearchTree ==
  \A t \in Txs, n \in Names :
    (Writing(t, n) /\ Readable(TreeOf(t, n)))
      => Ordered(pages, txs[t].dirty, txs[t].coll[n], <<>>, <<>>, 0)

MinFill ==
  \A t \in Txs, n \in Names :
    Writing(t, n) =>
      \A x \in TreeOf(t, n) :
        (x.depth > 0 /\ x.node.ok) => ~isUnderPopulated(x.node)

\* C15: after every completed put and remove the size of every node is at
\* most the page size, that of a node made by a merge too.
MaxFill ==
  \A t \in Txs, n \in Names :
    Writing(t, n) =>
      \A x \in TreeOf(t, n) : x.node.ok => nodeSize(x.node) <= PageSize

\* C16: nodeSize bounds the bytes serialize uses: every node a transaction
\* holds whose nodeSize is at most the page size serializes without its slot
\* area running into its cell area, and deserialize of its page yields the
\* node's items and child page numbers again.
SizeBoundsSerialize ==
  \A t \in Txs : \A p \in DOMAIN txs[t].dirty :
    With(txs[t].dirty[p], LAMBDA n :
      nodeSize(n) <= PageSize =>
        With(serialize(n), LAMBDA ser :
          /\ ser.ok
          /\ deserialize(ser.buf)
               = [ok |-> TRUE, items |-> n.items, childNodes |-> n.childNodes]))

\* the nodes of the persisted trees: the collections tree under the meta
\* page's root, and the tree under the root page each of its items names
CollectionRoots ==
  UNION {{CollectionRoot(x.node.items[i].value) : i \in 1..Len(x.node.items)} :
           x \in TreeNodes(pages, <<>>, root, 0)} \ {0}

PersistedNodes ==
  TreeNodes(pages, <<>>, root, 0)
    \cup UNION {TreeNodes(pages, <<>>, r, 0) : r \in CollectionRoots}

\* the places that name a page: the meta page, an item of the collections
\* tree, a child pointer of a persisted node
PagePointers ==
  {[from |-> 0, index |-> 0, page |-> root]}
    \cup {[from |-> root, index |-> r, page |-> r] : r \in CollectionRoots}
    \cup UNION {{[from |-> x.page, index |-> i, page |-> x.node.childNodes[i]] :
                   i \in 1..Len(x.node.childNodes)} : x \in PersistedNodes}

\* every transaction that began has ended, by a Commit or a Rollback
AllEnded ==
  /\ ~crashed
  /\ \A t \in Txs : txs[t].state # "active"
  /\ \E t \in Txs : txs[t].state = "done"

\* C17: once every transaction has ended by Commit or Rollback no page number
\* is held twice: a released page is no node of the persisted trees, the
\* released list names no page twice, and no two pointers of the persisted
\* trees name the same page.
NoPageHeldTwice ==
  AllEnded =>
    /\ \A i \in 1..Len(fl.releasedPages) :
         /\ \A x \in PersistedNodes : x.page # fl.releasedPages[i]
         /\ \A j \in 1..Len(fl.releasedPages) :
              i # j => fl.releasedPages[i] # fl.releasedPages[j]
    /\ \A a, b \in PagePointers : a # b => a.page # b.page

\* the leaf before has given one item away, its last or its first, and the
\* item is not the one with the key that was removed
Gave(before, after, key) ==
  /\ before.ok /\ after.ok
  /\ isLeaf(before) /\ isLeaf(after)
  /\ Len(before.items) > 0
  /\ \/ /\ after.items = SliceTo(before.items, Len(before.items) - 1)
        /\ before.items[Len(before.items)].key # key
     \/ /\ after.items = SliceFrom(before.items, 1)
        /\ before.items[1].key # key

\* C18: when a remove of a key from a leaf makes rebalanceRemove take an
\* item from a sibling leaf, canSpareAnElement held for the sibling, and the
\* sibling (the left one that gave its last item in rotateRight, the right
\* one that gave its first item in rotateLeft) is not under-populated
\* afterwards.
RotationSpares ==
  \A t \in Txs, nm \in Names :
    Writing(t, nm) =>
      \A k \in KeyNums :
        With2(txGetNode(Env(t), txs[t].coll[nm]), RemoveResult(t, nm, KeyOf(k)),
          LAMBDA got, rem :
            With(findKey(got.e, got.node, KeyOf(k), TRUE), LAMBDA f :
              (f.e.st = "ok" /\ f.index # -1 /\ isLeaf(f.node) /\ rem.res = "ok") =>
                \A x \in TreeOf(t, nm) :
                  With(NodeOf(rem.e.pages, rem.e.dirty, x.page), LAMBDA after :
                    Gave(x.node, after, KeyOf(k)) =>
                      /\ canSpareAnElement(x.node)
                      /\ ~isUnderPopulated(after))))

\* C19: removeItemFromInternal at index i of an internal node puts the
\* in-order predecessor in the item's place: the item that comes up is an
\* item of a leaf of the subtree under child i and no key of that subtree
\* is larger, whatever the height and the fan-out of the subtree.
PredecessorMoved ==
  \A t \in Txs, nm \in Names :
    Writing(t, nm) =>
      \A x \in TreeOf(t, nm) : \A i \in 1..Len(x.node.items) :
        (x.node.ok /\ ~isLeaf(x.node)) =>
          With2(txGetNode(Env(t), x.page),
                TreeNodes(pages, <<>>, x.node.childNodes[i], 0),
            LAMBDA n, sub :
              With(removeItemFromInternal(n.e, n.node, i - 1), LAMBDA r :
                (r.e.st = "ok" /\ Readable(sub)) =>
                  /\ \A y \in sub : \A j \in 1..Len(y.node.items) :
                       Compare(y.node.items[j].key, r.n.items[i].key) <= 0
                  /\ \E y \in sub :
                       /\ isLeaf(y.node)
                       /\ \E j \in 1..Len(y.node.items) :
                            y.node.items[j] = r.n.items[i]))

\* the node a put of key with value leaves at the end of its search, before
\* the insert path looks at the sizes: Insert steps 1 to 3
Inserted(t, nm, key, value) ==
  With(txGetNode(Env(t), txs[t].coll[nm]), LAMBDA got :
    With(findKey(got.e, got.node, key, FALSE), LAMBDA f :
      [ok |-> f.e.st = "ok",
       node |-> IF f.e.st # "ok" THEN f.node
                ELSE IF f.index < Len(f.node.items)
                        /\ Compare(f.node.items[f.index + 1].key, key) = 0
                THEN [f.node EXCEPT !.items[f.index + 1] = newItem(key, value)]
                ELSE addItem(f.node, newItem(key, value), f.index)]))

\* C20: whenever a put leaves a node over-populated, so that the insert path
\* splits it, the split index of the node is defined and leaves at least
\* one item on each side of the middle item.
SplitLeavesBothSides ==
  \A t \in Txs, nm \in Names :
    Writing(t, nm) =>
      \A k \in KeyNums : \A len \in {ValLen, WideValLen} :
        With(Inserted(t, nm, KeyOf(k), ValueOf(len)), LAMBDA ins :
          (ins.ok /\ isOverPopulated(ins.node)) =>
            With(getSplitIndex(ins.node), LAMBDA splitIndex :
              /\ splitIndex # -1
              /\ splitIndex >= 1
              /\ splitIndex <= Len(ins.node.items) - 2))

\* C10: remove(k) of a key that is absent from the collection returns
\* KeyNotFound and changes no node, neither the dirty set nor the free-list.
RemoveAbsentKey ==
  \A t \in Txs, n \in Names :
    Writing(t, n) =>
      \A k \in KeyNums :
        Find(t, n, KeyOf(k)) = <<"nil">> =>
          With(RemoveResult(t, n, KeyOf(k)), LAMBDA rem :
            /\ rem.res = "KeyNotFound"
            /\ rem.e = Env(t)
            /\ rem.root = txs[t].coll[n])

RemoveAbsentKeyWitness ==
  /\ last = Call("Remove", TreeTx, "KeyNotFound")
  /\ HasInternalRoot(TreeTx, TreeName)

====
